---- MODULE Spec2Model ----
(***************************************************************************)
(* The interview page (frontend/src/pages/interview.tsx) with its          *)
(* AudioCapture component, as a state machine.  Every React event handler  *)
(* or promise continuation is one action; the effects that a handler's     *)
(* state changes trigger are part of the action.                           *)
(*                                                                         *)
(* A string is a sequence of one-character strings; a JavaScript array is  *)
(* a sequence whose holes hold Undefined (JS index i is position i + 1).   *)
(***************************************************************************)
EXTENDS Integers, Sequences, FiniteSets, TLC

\* ------------------------------------------------------------ bounds
\* questions a start response may carry
MaxQuestions == 2
\* clicks on Start (requests to /interview/start) in one run
MaxStarts == 1
\* requests to /report/finalize in one run
MaxFinalize == 2
\* results carried by one SpeechRecognitionEvent from resultIndex on
MaxResults == 2
\* words of the longest transcript, for the accumulator on its own
MaxWords == 2
\* words of the longest transcript while the whole page runs
MaxPageWords == 1
\* largest resultIndex of a SpeechRecognitionEvent
MaxResultIndex == 1
\* attention events recorded for the session in one run
MaxEvents == 2
\* ticks of the attention monitor's polling interval in one run
MaxPolls == 1
\* clicks on Start Monitoring in one run
MaxDetStarts == 2

QUESTION_TIME_SECONDS == 120

\* ------------------------------------------------------------ values
\* session === null: no session id is 0, and a question is <<session id, index>>
NoSession == [session_id |-> 0, questions |-> << >>]
\* token === null (a token is named by the session it was issued for)
NoToken == 0
\* a hole of the answers array (no string holds a longer-than-one-character item)
Undefined == << "undefined" >>
SP == " "

\* String.prototype.trim, one end at a time
RECURSIVE TrimLeft(_)
TrimLeft(s) ==
    IF s # << >> /\ Head(s) = SP THEN TrimLeft(Tail(s)) ELSE s

RECURSIVE TrimRight(_)
TrimRight(s) ==
    IF s # << >> /\ s[Len(s)] = SP THEN TrimRight(SubSeq(s, 1, Len(s) - 1)) ELSE s

Trim(s) == TrimRight(TrimLeft(s))

\* transcript.split(' '): the pieces between single spaces (cut at a space
\* near the middle first, so that long transcripts nest only a few levels)
RECURSIVE Split(_)
Split(s) ==
    IF \A i \in 1..Len(s) : s[i] # SP
    THEN << s >>
    ELSE LET mid == (Len(s) + 1) \div 2
             IsSpace(i) == i \in 1..Len(s) /\ s[i] = SP
             d == CHOOSE n \in 0..Len(s) : IsSpace(mid - n) \/ IsSpace(mid + n)
             k == IF IsSpace(mid - d) THEN mid - d ELSE mid + d
         IN  Split(SubSeq(s, 1, k - 1)) \o Split(SubSeq(s, k + 1, Len(s)))

Min(a, b) == IF a < b THEN a ELSE b

\* copy[i] = v on a JavaScript array: writing past the end leaves holes
ArraySet(arr, i, v, hole) ==
    IF i < Len(arr)
    THEN [arr EXCEPT ![i + 1] = v]
    ELSE arr \o [k \in 1..(i - Len(arr)) |-> hole] \o << v >>

\* arr[i] ?? dflt
ArrayGetOr(arr, i, dflt) ==
    IF i < Len(arr) /\ arr[i + 1] # Undefined THEN arr[i + 1] ELSE dflt

\* new Array(n).fill('')
ArrayFill(n, v) == [k \in 1..n |-> v]

\* ------------------------------------------------------------ scores
\* a hole of the scores array
NoCard ==
    [clarity |-> 0, relevance |-> 0, structure |-> 0, conciseness |-> 0,
     confidence |-> 0, total |-> 0, commentary |-> FALSE]

\* (mutant) clarity without the cap at 5
LiveScoreUncapped(t) ==
    LET words == Len(Split(t))
        clarity == (words \div 30) + 2
        conciseness == IF words < 200 THEN 4 ELSE 3
    IN  [clarity |-> clarity, relevance |-> 3, structure |-> 3,
         conciseness |-> conciseness, confidence |-> 3,
         total |-> clarity + 3 + 3 + conciseness + 3, commentary |-> FALSE]

\* the live score of a non-empty transcript
LiveScore(t) ==
    LET words == Len(Split(t))
        clarity == Min(5, (words \div 30) + 2)
        conciseness == IF words < 200 THEN 4 ELSE 3
    IN  [clarity |-> clarity, relevance |-> 3, structure |-> 3,
         conciseness |-> conciseness, confidence |-> 3,
         total |-> clarity + 3 + 3 + conciseness + 3, commentary |-> FALSE]

\* the scores object of a finalize response: the server's own grading, which
\* the page does not compute; v names one of the bodies it may answer with
ServerCard(v) ==
    LET clarity == Min(5, 3 + v)
    IN  [clarity |-> clarity, relevance |-> 5, structure |-> 4, conciseness |-> 4,
         confidence |-> 5, total |-> clarity + 5 + 4 + 4 + 5, commentary |-> TRUE]

\* the bodies the server may answer one finalize request with: in the first
\* its summary collaborator answered, in the second it failed or timed out
Variants == { 1, 2 }
CollaboratorFailed(v) == v = 2

\* report === null
NoReport == [session_id |-> 0, summary |-> "", questions |-> << >>]

\* the fixed summary text of a report whose collaborator failed or timed out
FallbackSummary == "fallback summary"

\* (mutant) no summary text when the collaborator failed or timed out
SummaryOrNone(v) ==
    IF CollaboratorFailed(v) THEN "" ELSE "summary of the collaborator"

\* the summary text of a report
Summary(v) ==
    IF CollaboratorFailed(v) THEN FallbackSummary ELSE "summary of the collaborator"

\* the body of a 200 response to a finalize request: one entry per transcript
\* of the request, with its question and scores (the entry's echo of the
\* transcript, which the page never reads, is left out)
FinalizeResponse(req, v) ==
    [session_id |-> req.session_id,
     summary |-> Summary(v),
     questions |-> [k \in 1..Len(req.transcripts) |->
                       [question |-> req.transcripts[k].question,
                        scores |-> ServerCard(v)]]]

\* ------------------------------------------------------------ state
VARIABLES
    \* InterviewPage state (useState)
    session, qIndex, transcript, scores, answers, avatarText, token,
    countdown, report, loadingReport,
    \* AudioCapture: the ref, the state, and the props closed over by the
    \* handleResult that startRecognition installed as onresult
    finalTranscriptRef, listening, handler,
    \* requests to /interview/start: in flight, made so far, sessions issued
    startReqs, startCalls, issued,
    \* requests to /report/finalize: in flight, made so far
    finalizeReqs, finalizeCalls,
    \* history: the trimmed texts of the final results accepted since
    \* finalTranscriptRef was last cleared, the index of the last of them in
    \* event.results, and the words of all final results accepted in this session
    accepted, lastSeq, finals,
    \* the attention aggregator of the session: the last event recorded, the
    \* per-state counters, and (history) the events in arrival order
    attLast, attCounts, attLog,
    \* AttentionMonitor: its state, whether its polling effect is live, the
    \* polls in flight and the ticks of its interval so far
    snapshot, error, monitorActive, polls, pollCalls,
    \* history: how many events had been recorded when the response now
    \* displayed was served (-1: none displayed)
    shownAt,
    \* AttentionDetector: its state, whether its models are loaded, the
    \* startDetection calls awaiting, the intervals scheduled, the camera
    \* streams open, and its refs to an interval and a stream
    isActive, currentState, detError, modelLoading, modelsLoaded, starting,
    intervals, intervalIdRef, streams, streamRef,
    \* the startDetection calls made so far; history: the events posted
    detCalls, posted

pageVars ==
    << session, qIndex, transcript, scores, answers, avatarText, token,
       countdown, report, loadingReport >>
audioVars == << finalTranscriptRef, listening, handler >>
netVars == << startReqs, startCalls, issued, finalizeReqs, finalizeCalls >>
histVars == << accepted, lastSeq, finals >>
aggVars == << attLast, attCounts, attLog >>
monitorVars == << snapshot, error, monitorActive, polls, pollCalls, shownAt >>
attVars == << aggVars, monitorVars >>
detVars ==
    << isActive, currentState, detError, modelLoading, modelsLoaded, starting,
       intervals, intervalIdRef, streams, streamRef, detCalls, posted >>
vars == << pageVars, audioVars, netVars, histVars, attVars, detVars >>

NoQuestion == << 0, 0 >>
\* countdown === null
NoCountdown == -1
Avatar(kind, q) == [kind |-> kind, question |-> q]

\* ------------------------------------------------------------ attention values
\* an AttentionEvent as the detector posts it: the classified state, its
\* label, its confidence in hundredths and its timestamp
Classified ==
    { [state |-> "focused", event |-> "looking_forward", confidence |-> 85],
      [state |-> "distracted", event |-> "no_face_detected", confidence |-> 90],
      [state |-> "distracted", event |-> "looking_away", confidence |-> 70],
      [state |-> "unknown", event |-> "", confidence |-> 0] }

\* the timestamps events carry; events may arrive in any order of them
Timestamps == { 1, 2 }

AttentionEvents ==
    { [state |-> c.state, event |-> c.event, confidence |-> c.confidence,
       timestamp |-> t] : c \in Classified, t \in Timestamps }

\* no event recorded yet
NoEvent == [state |-> "none", event |-> "", confidence |-> 0, timestamp |-> 0]

\* score === undefined, last_event === undefined
NoScore == -1
NoLabel == ""

\* useState<AttentionSnapshot>({ state: 'unknown' })
InitialSnapshot == [state |-> "unknown", score |-> NoScore, last_event |-> NoLabel]

\* no response body yet
NoBody == [state |-> "none", score |-> NoScore, last_event |-> NoLabel]

\* a response body without a state
Missing == "undefined"

\* the aggregator with nothing recorded and the monitor not mounted
AttIdle ==
    /\ attLast = NoEvent
    /\ attCounts = [focused |-> 0, distracted |-> 0, unknown |-> 0]
    /\ attLog = << >>
    /\ snapshot = InitialSnapshot
    /\ error = FALSE
    /\ monitorActive = FALSE
    /\ polls = << >>
    /\ pollCalls = 0
    /\ shownAt = -1

\* the detector as it mounts: not monitoring, no model loaded
DetIdle ==
    /\ isActive = FALSE
    /\ currentState = "unknown"
    /\ detError = FALSE
    /\ modelLoading = FALSE
    /\ modelsLoaded = FALSE
    /\ starting = << >>
    /\ intervals = {}
    /\ intervalIdRef = 0
    /\ streams = {}
    /\ streamRef = 0
    /\ detCalls = 0
    /\ posted = << >>

\* the page after k clicks on Start made before any of the requests is
\* answered (the button stays until a session is set)
Clicked(k) ==
    /\ session = NoSession
    /\ qIndex = 0
    /\ transcript = << >>
    /\ scores = << >>
    /\ answers = << >>
    /\ avatarText = Avatar("click_start", NoQuestion)
    /\ token = NoToken
    /\ countdown = NoCountdown
    /\ report = NoReport
    /\ loadingReport = FALSE
    /\ finalTranscriptRef = << >>
    /\ listening = FALSE
    /\ handler = [session_id |-> 0, token |-> NoToken, question_index |-> 0]
    /\ startReqs = k
    /\ startCalls = k
    /\ issued = 0
    /\ finalizeReqs = << >>
    /\ finalizeCalls = 0
    /\ accepted = << >>
    /\ lastSeq = -1
    /\ finals = {}
    /\ AttIdle
    /\ DetIdle

Init == Clicked(0)

\* ------------------------------------------------------------ start
\* the lengths of the question list of a start response; the page takes the
\* list as it comes and renders a session whose questions.length is 0
QuestionCounts == 0..MaxQuestions

\* questions[i], undefined (NoQuestion) past the end of the list
QuestionAt(questions, i) ==
    IF i < Len(questions) THEN questions[i + 1] ELSE NoQuestion

\* the body of a 200 response to /interview/start: a new session id, its
\* questions and the token issued for it
StartResponse(sid, n) ==
    [session_id |-> sid,
     questions |-> [k \in 1..n |-> << sid, k - 1 >>],
     token |-> sid]

\* a click on Start, up to the await of the request
Start ==
    /\ session = NoSession
    /\ startCalls < MaxStarts
    /\ startCalls' = startCalls + 1
    /\ startReqs' = startReqs + 1
    /\ UNCHANGED << pageVars, audioVars, issued, finalizeReqs, finalizeCalls, histVars >>
    /\ UNCHANGED attVars
    /\ UNCHANGED detVars

\* start resuming with res.ok: what the page and its AudioCapture do with
\* the response
StartOkPage(n) ==
    /\ startReqs > 0
    /\ LET data == StartResponse(issued + 1, n)
       IN  /\ session' = [session_id |-> data.session_id, questions |-> data.questions]
           /\ token' = data.token
           /\ avatarText' = Avatar("question", QuestionAt(data.questions, 0))
           /\ qIndex' = 0
           /\ transcript' = << >>
           /\ scores' = << >>
           /\ answers' = ArraySet(ArrayFill(Len(data.questions), << >>), 0, << >>, Undefined)
           /\ report' = NoReport
           /\ countdown' = QUESTION_TIME_SECONDS
    /\ finalTranscriptRef' = << >>
    /\ accepted' = << >>
    /\ lastSeq' = -1
    /\ finals' = {}
    /\ issued' = issued + 1
    /\ startReqs' = startReqs - 1
    /\ UNCHANGED << loadingReport, listening, handler, startCalls,
                    finalizeReqs, finalizeCalls >>
    /\ UNCHANGED detVars

\* (mutant) start without its setQIndex(0)
StartOkKeepsCursor(n) ==
    /\ startReqs > 0
    /\ LET data == StartResponse(issued + 1, n)
       IN  /\ session' = [session_id |-> data.session_id, questions |-> data.questions]
           /\ token' = data.token
           /\ avatarText' = Avatar("question", QuestionAt(data.questions, 0))
           /\ qIndex' = qIndex
           /\ transcript' = << >>
           /\ scores' = << >>
           /\ answers' = ArraySet(ArrayFill(Len(data.questions), << >>), 0, << >>, Undefined)
           /\ report' = NoReport
           /\ countdown' = QUESTION_TIME_SECONDS
    /\ finalTranscriptRef' = << >>
    /\ accepted' = << >>
    /\ lastSeq' = -1
    /\ finals' = {}
    /\ issued' = issued + 1
    /\ startReqs' = startReqs - 1
    /\ UNCHANGED << loadingReport, listening, handler, startCalls,
                    finalizeReqs, finalizeCalls >>
    /\ UNCHANGED attVars
    /\ UNCHANGED detVars

\* (mutant) start without its setToken
StartOkNoToken(n) ==
    /\ startReqs > 0
    /\ LET data == StartResponse(issued + 1, n)
       IN  /\ session' = [session_id |-> data.session_id, questions |-> data.questions]
           /\ token' = token
           /\ avatarText' = Avatar("question", QuestionAt(data.questions, 0))
           /\ qIndex' = 0
           /\ transcript' = << >>
           /\ scores' = << >>
           /\ answers' = ArraySet(ArrayFill(Len(data.questions), << >>), 0, << >>, Undefined)
           /\ report' = NoReport
           /\ countdown' = QUESTION_TIME_SECONDS
    /\ finalTranscriptRef' = << >>
    /\ accepted' = << >>
    /\ lastSeq' = -1
    /\ finals' = {}
    /\ issued' = issued + 1
    /\ startReqs' = startReqs - 1
    /\ UNCHANGED << loadingReport, listening, handler, startCalls,
                    finalizeReqs, finalizeCalls >>
    /\ UNCHANGED attVars
    /\ UNCHANGED detVars

\* start resumes with res.ok; then the effects on session and qIndex run:
\* the countdown reset, the answers effect and AudioCapture's reset effect
StartOk(n) ==
    /\ StartOkPage(n)
    /\ UNCHANGED attVars

\* (mutant) the state resets of start done before its check of res.ok
StartNotOkResets ==
    /\ startReqs > 0
    /\ avatarText' = Avatar("unable_to_start", NoQuestion)
    /\ qIndex' = 0
    /\ transcript' = << >>
    /\ scores' = << >>
    /\ report' = NoReport
    /\ countdown' = QUESTION_TIME_SECONDS
    /\ startReqs' = startReqs - 1
    /\ UNCHANGED << session, answers, token, loadingReport, audioVars, startCalls,
                    issued, finalizeReqs, finalizeCalls, histVars >>
    /\ UNCHANGED attVars
    /\ UNCHANGED detVars

\* start resumes with !res.ok
StartNotOk ==
    /\ startReqs > 0
    /\ avatarText' = Avatar("unable_to_start", NoQuestion)
    /\ startReqs' = startReqs - 1
    /\ UNCHANGED << session, qIndex, transcript, scores, answers, token, countdown,
                    report, loadingReport, audioVars, startCalls, issued,
                    finalizeReqs, finalizeCalls, histVars >>
    /\ UNCHANGED attVars
    /\ UNCHANGED detVars

\* the request's promise rejects: start throws at its await
StartRejected ==
    /\ startReqs > 0
    /\ startReqs' = startReqs - 1
    /\ UNCHANGED << pageVars, audioVars, startCalls, issued, finalizeReqs,
                    finalizeCalls, histVars >>
    /\ UNCHANGED attVars
    /\ UNCHANGED detVars

\* ------------------------------------------------------------ countdown
\* (mutant) a tick that counts down whatever the countdown is
TickNoFloor ==
    /\ countdown # NoCountdown
    /\ countdown' = countdown - 1
    /\ UNCHANGED << session, qIndex, transcript, scores, answers, avatarText, token,
                    report, loadingReport, audioVars, netVars, histVars >>
    /\ UNCHANGED attVars
    /\ UNCHANGED detVars

\* a tick of the interval that the countdown effect sets while the countdown
\* is above 0: the updater handed to setCountdown
Tick ==
    /\ countdown # NoCountdown
    /\ countdown > 0
    /\ countdown' = IF countdown <= 1 THEN 0 ELSE countdown - 1
    /\ UNCHANGED << session, qIndex, transcript, scores, answers, avatarText, token,
                    report, loadingReport, audioVars, netVars, histVars >>
    /\ UNCHANGED attVars
    /\ UNCHANGED detVars

\* ------------------------------------------------------------ finalize
\* (mutant) payload.transcripts holding only the questions that were answered
PayloadAnsweredOnly(updatedAnswers) ==
    SelectSeq([k \in 1..Len(session.questions) |->
                  [question |-> session.questions[k],
                   transcript |-> ArrayGetOr(updatedAnswers, k - 1, << >>)]],
              LAMBDA entry : entry.transcript # << >>)

\* payload.transcripts of finalize(updatedAnswers)
Payload(updatedAnswers) ==
    [k \in 1..Len(session.questions) |->
        [question |-> session.questions[k],
         transcript |-> ArrayGetOr(updatedAnswers, k - 1, << >>)]]

\* payload.attention_summary of finalize, in hundredths
AttentionSummary == [focused_ratio |-> 82, distracted_ratio |-> 18]

\* (mutant) finalize without its setLoadingReport(true)
FinalizeCallNoLoading(updatedAnswers) ==
    IF session = NoSession \/ token = NoToken
    THEN UNCHANGED << loadingReport, avatarText, finalizeReqs, finalizeCalls >>
    ELSE /\ loadingReport' = loadingReport
         /\ avatarText' = Avatar("generating_report", NoQuestion)
         /\ finalizeReqs' = Append(finalizeReqs,
                                   [session_id |-> session.session_id,
                                    token |-> token,
                                    transcripts |-> Payload(updatedAnswers),
                                    attention_summary |-> AttentionSummary,
                                    hung |-> FALSE])
         /\ finalizeCalls' = finalizeCalls + 1

\* finalize(updatedAnswers) up to the await of the request
FinalizeCall(updatedAnswers) ==
    IF session = NoSession \/ token = NoToken
    THEN UNCHANGED << loadingReport, avatarText, finalizeReqs, finalizeCalls >>
    ELSE /\ loadingReport' = TRUE
         /\ avatarText' = Avatar("generating_report", NoQuestion)
         /\ finalizeReqs' = Append(finalizeReqs,
                                   [session_id |-> session.session_id,
                                    token |-> token,
                                    transcripts |-> Payload(updatedAnswers),
                                    attention_summary |-> AttentionSummary,
                                    hung |-> FALSE])
         /\ finalizeCalls' = finalizeCalls + 1

\* (mutant) the button without its disabled attribute
NextEnabledNoDisable == session # NoSession

\* the Next Question / Finish Interview button is rendered with a session and
\* is disabled while loadingReport
NextEnabled == session # NoSession /\ ~loadingReport

\* a click on the button: nextQ, then the effects on qIndex and transcript
nextQ ==
    /\ NextEnabled
    /\ LET next == qIndex + 1
           updatedAnswers == ArraySet(answers, qIndex, transcript, Undefined)
       IN  IF next < Len(session.questions)
           THEN /\ qIndex' = next
                /\ avatarText' = Avatar("question", session.questions[next + 1])
                /\ transcript' = << >>
                /\ answers' = ArraySet(updatedAnswers, next, << >>, Undefined)
                /\ countdown' = QUESTION_TIME_SECONDS
                /\ finalTranscriptRef' = << >>
                /\ accepted' = << >>
                /\ lastSeq' = -1
                /\ UNCHANGED << loadingReport, finalizeReqs, finalizeCalls >>
           ELSE /\ finalizeCalls < MaxFinalize
                /\ answers' = updatedAnswers
                /\ FinalizeCall(updatedAnswers)
                /\ UNCHANGED << qIndex, transcript, countdown, finalTranscriptRef,
                                accepted, lastSeq >>
    /\ UNCHANGED << session, scores, token, report, listening, handler,
                    startReqs, startCalls, issued, finals >>
    /\ UNCHANGED attVars
    /\ UNCHANGED detVars

RemoveAt(seq, i) == SubSeq(seq, 1, i - 1) \o SubSeq(seq, i + 1, Len(seq))

Answerable(i) == i \in 1..Len(finalizeReqs) /\ ~finalizeReqs[i].hung

\* finalize resumes with res.ok and the body v
FinalizeOk(i, v) ==
    /\ Answerable(i)
    /\ LET data == FinalizeResponse(finalizeReqs[i], v)
       IN  /\ report' = data
           /\ scores' = [k \in 1..Len(data.questions) |-> data.questions[k].scores]
    /\ avatarText' = Avatar("report_ready", NoQuestion)
    /\ loadingReport' = FALSE
    /\ finalizeReqs' = RemoveAt(finalizeReqs, i)
    /\ UNCHANGED << session, qIndex, transcript, answers, token, countdown,
                    audioVars, startReqs, startCalls, issued, finalizeCalls, histVars >>
    /\ UNCHANGED attVars
    /\ UNCHANGED detVars

\* finalize resumes with !res.ok
FinalizeNotOk(i) ==
    /\ Answerable(i)
    /\ avatarText' = Avatar("unable_to_generate", NoQuestion)
    /\ loadingReport' = FALSE
    /\ finalizeReqs' = RemoveAt(finalizeReqs, i)
    /\ UNCHANGED << session, qIndex, transcript, scores, answers, token, countdown,
                    report, audioVars, startReqs, startCalls, issued, finalizeCalls,
                    histVars >>
    /\ UNCHANGED attVars
    /\ UNCHANGED detVars

\* the request's promise rejects (network failure, abort): finalize throws at
\* its await and nothing after it runs
FinalizeRejected(i) ==
    /\ Answerable(i)
    /\ finalizeReqs' = RemoveAt(finalizeReqs, i)
    /\ UNCHANGED << pageVars, audioVars, startReqs, startCalls, issued,
                    finalizeCalls, histVars >>
    /\ UNCHANGED attVars
    /\ UNCHANGED detVars

\* the server stops answering this request: its promise never settles
\* (the request carries no timeout and no AbortSignal)
FinalizeHang(i) ==
    /\ Answerable(i)
    /\ finalizeReqs' = [finalizeReqs EXCEPT ![i].hung = TRUE]
    /\ UNCHANGED << pageVars, audioVars, startReqs, startCalls, issued,
                    finalizeCalls, histVars >>
    /\ UNCHANGED attVars
    /\ UNCHANGED detVars

\* ------------------------------------------------------------ AudioCapture
\* a SpeechRecognitionEvent: results holds event.results from resultIndex on,
\* so results[k] is event.results[resultIndex + k - 1]; each result has its
\* result[0].transcript as the recognizer delivers it, and isFinal
EventsOf(texts, maxResults, maxIndex) ==
    [resultIndex : 0..maxIndex,
     results : UNION { [1..n -> [transcript : texts, isFinal : BOOLEAN]] :
                          n \in 1..maxResults }]

\* the events of the recognizer, for the accumulator on its own
RawTexts == { << SP >>, << "a" >>, << SP, "b" >>, << "b", SP >> }
Events == EventsOf(RawTexts, MaxResults, MaxResultIndex)

\* the events delivered while the whole page runs: one result, final or interim
PageEvents == EventsOf({ << SP, "a" >> }, 1, 0)

\* (mutant) the new text put before the accumulated one
AppendFinalNewestFirst(ref, text) ==
    Trim(IF ref # << >> THEN text \o << SP >> \o ref ELSE text)

\* the new finalTranscriptRef.current for a final result with trimmed text
AppendFinal(ref, text) ==
    Trim(IF ref # << >> THEN ref \o << SP >> \o text ELSE text)

\* the new interimTranscript for an interim result with trimmed text
AppendInterim(interim, text) == Trim(interim \o << SP >> \o text)

\* whether a final result is posted to /stt/append, and the request's body
PostsAppend == handler.session_id # 0 /\ handler.token # NoToken
PostBody(text) ==
    [session_id |-> handler.session_id, token |-> handler.token,
     question_index |-> handler.question_index, text |-> text]

\* one pass of the loop body of handleResult, for event.results[i]
LoopBody(acc, result, i) ==
    LET text == Trim(result.transcript)
    IN  IF text = << >>
        THEN acc
        ELSE IF result.isFinal
             THEN [acc EXCEPT !.ref = AppendFinal(acc.ref, text),
                              !.posts = IF PostsAppend
                                        THEN Append(acc.posts, PostBody(text))
                                        ELSE acc.posts,
                              !.accepted = Append(acc.accepted, text),
                              !.lastSeq = i,
                              !.finals = acc.finals \cup { Split(text)[k] : k \in 1..Len(Split(text)) }]
             ELSE [acc EXCEPT !.interim = AppendInterim(acc.interim, text)]

\* the loop of handleResult from its k-th result on
RECURSIVE Loop(_, _, _)
Loop(acc, ev, k) ==
    IF k > Len(ev.results)
    THEN acc
    ELSE Loop(LoopBody(acc, ev.results[k], ev.resultIndex + k - 1), ev, k + 1)

\* the transcript handed to onTranscript
Combined(ref, interim) ==
    Trim(ref \o (IF interim # << >> THEN << SP >> \o interim ELSE << >>))

\* recognition.onresult; then the page's effects on transcript: the answers
\* effect and the live score effect
HandleResult(ev) ==
    /\ listening
    /\ \E acc \in { Loop([ref |-> finalTranscriptRef, interim |-> << >>,
                           posts |-> << >>, accepted |-> accepted,
                           lastSeq |-> lastSeq, finals |-> finals], ev, 1) } :
       \E combined \in { Combined(acc.ref, acc.interim) } :
          /\ finalTranscriptRef' = acc.ref
          /\ accepted' = acc.accepted
          /\ lastSeq' = acc.lastSeq
          /\ finals' = acc.finals
          /\ transcript' = combined
          /\ answers' = IF combined # transcript /\ session # NoSession
                        THEN ArraySet(answers, qIndex, combined, Undefined)
                        ELSE answers
          /\ scores' = IF combined # transcript /\ combined # << >>
                       THEN ArraySet(scores, qIndex, LiveScore(combined), NoCard)
                       ELSE scores
    /\ UNCHANGED << session, qIndex, avatarText, token, countdown, report,
                    loadingReport, listening, handler, netVars >>
    /\ UNCHANGED attVars
    /\ UNCHANGED detVars

\* a click on Start Recording: the handler installed closes over the props of
\* the current render
startRecognition ==
    /\ ~listening
    /\ finalTranscriptRef' = << >>
    /\ accepted' = << >>
    /\ lastSeq' = -1
    /\ listening' = TRUE
    /\ handler' = [session_id |-> session.session_id, token |-> token,
                   question_index |-> qIndex]
    /\ UNCHANGED << pageVars, netVars, finals >>
    /\ UNCHANGED attVars
    /\ UNCHANGED detVars

\* a click on Stop Recording, recognition.onerror or recognition.onend
stopRecognition ==
    /\ listening
    /\ listening' = FALSE
    /\ UNCHANGED << pageVars, finalTranscriptRef, handler, netVars, histVars >>
    /\ UNCHANGED attVars
    /\ UNCHANGED detVars

\* (mutant) a live score that loses a point of confidence once a distracted
\* event was recorded
OnTranscriptAttentive(t) ==
    /\ t # transcript
    /\ transcript' = t
    /\ answers' = IF session # NoSession
                  THEN ArraySet(answers, qIndex, t, Undefined)
                  ELSE answers
    /\ \E card \in { LiveScore(t) } :
          scores' = IF t # << >>
                    THEN ArraySet(scores, qIndex,
                                  IF attCounts.distracted > 0
                                  THEN [card EXCEPT !.confidence = 2,
                                                    !.total = @ - 1]
                                  ELSE card,
                                  NoCard)
                    ELSE scores
    /\ UNCHANGED << session, qIndex, avatarText, token, countdown, report,
                    loadingReport, audioVars, netVars, histVars >>
    /\ UNCHANGED attVars
    /\ UNCHANGED detVars

\* onTranscript(t), the page's setTranscript handed to AudioCapture; then the
\* page's effects on transcript: the answers effect and the live score effect
OnTranscript(t) ==
    /\ t # transcript
    /\ transcript' = t
    /\ answers' = IF session # NoSession
                  THEN ArraySet(answers, qIndex, t, Undefined)
                  ELSE answers
    /\ \E card \in { LiveScore(t) } :
          scores' = IF t # << >>
                    THEN ArraySet(scores, qIndex, card, NoCard)
                    ELSE scores
    /\ UNCHANGED << session, qIndex, avatarText, token, countdown, report,
                    loadingReport, audioVars, netVars, histVars >>
    /\ UNCHANGED attVars
    /\ UNCHANGED detVars

\* ------------------------------------------------------------ attention aggregator
\* (mutant) unknown events counted in the denominator
ClassifiedTotalAll(counts) == counts.focused + counts.distracted + counts.unknown

\* totalCount: the events classified focused or distracted
ClassifiedTotal(counts) == counts.focused + counts.distracted

\* focusedRatio as << numerator, denominator >>: 0 when totalCount = 0
FocusedRatio(counts) ==
    IF ClassifiedTotal(counts) = 0
    THEN << 0, 1 >>
    ELSE << counts.focused, ClassifiedTotal(counts) >>

\* (mutant) the event with the latest timestamp kept
LastEventByTimestamp(last, e) ==
    IF e.timestamp >= last.timestamp THEN e ELSE last

\* lastEvent after record(e)
LastEvent(last, e) == e

\* record(event), for an event posted to the session
Record(e) ==
    /\ session # NoSession
    /\ Len(attLog) < MaxEvents
    /\ attLast' = LastEvent(attLast, e)
    /\ attCounts' = [attCounts EXCEPT ![e.state] = @ + 1]
    /\ attLog' = Append(attLog, e)
    /\ UNCHANGED detVars
    /\ UNCHANGED << pageVars, audioVars, netVars, histVars, monitorVars >>

\* snapshot(): the state, confidence and label of lastEvent
ServerSnapshot ==
    IF attLast = NoEvent
    THEN [state |-> Missing, score |-> NoScore, last_event |-> NoLabel]
    ELSE [state |-> attLast.state, score |-> attLast.confidence,
          last_event |-> attLast.event]

\* ------------------------------------------------------------ AttentionMonitor
\* a call of fetchSnapshot awaiting its response, made by the polling effect
\* for sessionId sid: stale once that effect was cleaned up (its active is
\* false)
NewPoll(sid) ==
    [session_id |-> sid, served |-> FALSE, body |-> NoBody, at |-> 0,
     stale |-> FALSE]

\* the poll once the server has answered it with the snapshot of this moment
Served(poll) ==
    [poll EXCEPT !.served = TRUE, !.body = ServerSnapshot, !.at = Len(attLog)]

\* the cleanup of the polling effect as the polls in flight see it
CleanedUp(inflight) == [k \in 1..Len(inflight) |-> [inflight[k] EXCEPT !.stale = TRUE]]

\* a tick of the polling interval: fetchSnapshot up to the await of the
\* request
FetchSnapshot ==
    /\ monitorActive
    /\ pollCalls < MaxPolls
    /\ polls' = Append(polls, NewPoll(session.session_id))
    /\ pollCalls' = pollCalls + 1
    /\ UNCHANGED detVars
    /\ UNCHANGED << pageVars, audioVars, netVars, histVars, aggVars,
                    snapshot, error, monitorActive, shownAt >>

\* GET /interview/{session_id}/attention is served: the response carries the
\* snapshot of this moment
ServeSnapshot(i) ==
    /\ i \in 1..Len(polls)
    /\ ~polls[i].served
    /\ polls' = [polls EXCEPT ![i] = Served(@)]
    /\ UNCHANGED detVars
    /\ UNCHANGED << pageVars, audioVars, netVars, histVars, aggVars,
                    snapshot, error, monitorActive, pollCalls, shownAt >>

\* the snapshot set from a response body: data.state ?? 'unknown'
Displayed(data) ==
    [state |-> IF data.state = Missing THEN "unknown" ELSE data.state,
     score |-> data.score,
     last_event |-> data.last_event]

\* (mutant) fetchSnapshot without its check of active after the awaits
FetchOkUnchecked(i) ==
    /\ i \in 1..Len(polls)
    /\ polls[i].served
    /\ snapshot' = Displayed(polls[i].body)
    /\ error' = FALSE
    /\ shownAt' = polls[i].at
    /\ polls' = RemoveAt(polls, i)
    /\ UNCHANGED detVars
    /\ UNCHANGED << pageVars, audioVars, netVars, histVars, aggVars,
                    monitorActive, pollCalls >>

\* fetchSnapshot resumes with res.ok and the body
FetchOk(i) ==
    /\ i \in 1..Len(polls)
    /\ polls[i].served
    /\ IF ~polls[i].stale
       THEN /\ snapshot' = Displayed(polls[i].body)
            /\ error' = FALSE
            /\ shownAt' = polls[i].at
       ELSE UNCHANGED << snapshot, error, shownAt >>
    /\ polls' = RemoveAt(polls, i)
    /\ UNCHANGED detVars
    /\ UNCHANGED << pageVars, audioVars, netVars, histVars, aggVars,
                    monitorActive, pollCalls >>

\* the request fails or is answered with !res.ok: the catch branch
FetchFailed(i) ==
    /\ i \in 1..Len(polls)
    /\ error' = IF ~polls[i].stale THEN TRUE ELSE error
    /\ polls' = RemoveAt(polls, i)
    /\ UNCHANGED detVars
    /\ UNCHANGED << pageVars, audioVars, netVars, histVars, aggVars,
                    snapshot, monitorActive, pollCalls, shownAt >>

\* the cleanup of the polling effect (unmount): active = false, timer cleared
MonitorCleanup ==
    /\ monitorActive
    /\ monitorActive' = FALSE
    /\ polls' = CleanedUp(polls)
    /\ UNCHANGED detVars
    /\ UNCHANGED << pageVars, audioVars, netVars, histVars, aggVars,
                    snapshot, error, pollCalls, shownAt >>

\* the polling effect when the page's session becomes sid. The first session
\* mounts the monitor: its effect sends the first fetchSnapshot. A later one
\* re-runs the effect: the old effect's cleanup, then the first fetchSnapshot
\* of the new one; the aggregate followed from here on is the new session's,
\* still empty, and the requests of the old session not yet answered get the
\* old session's final snapshot
MonitorEffect(sid) ==
    IF session = NoSession
    THEN /\ monitorActive' = TRUE
         /\ polls' = Append(polls, NewPoll(sid))
         /\ UNCHANGED << aggVars, snapshot, error, pollCalls, shownAt >>
    ELSE /\ monitorActive
         /\ polls' = Append(CleanedUp([k \in 1..Len(polls) |->
                                          IF polls[k].served THEN polls[k]
                                          ELSE Served(polls[k])]),
                            NewPoll(sid))
         /\ attLast' = NoEvent
         /\ attCounts' = [focused |-> 0, distracted |-> 0, unknown |-> 0]
         /\ attLog' = << >>
         /\ UNCHANGED << snapshot, error, monitorActive, pollCalls, shownAt >>

\* start resuming with res.ok on a page that renders the attention monitor
StartOkMonitored(n) ==
    /\ StartOkPage(n)
    /\ MonitorEffect(issued + 1)

\* ------------------------------------------------------------ AttentionDetector
\* what the classification of a frame may give: never 'unknown'
Frames == { c \in Classified : c.state # "unknown" }

\* a click on Start Monitoring: startDetection up to its first await.  The
\* call keeps the analyzeFrame of the render it was made in, which closes
\* over that render's currentState and, through sendAttentionEvent, over its
\* sessionId and authToken
startDetection ==
    /\ ~isActive
    /\ ~modelLoading
    /\ detCalls < MaxDetStarts
    /\ detCalls' = detCalls + 1
    /\ detError' = FALSE
    /\ modelLoading' = ~modelsLoaded
    /\ starting' = Append(starting,
                          [id |-> detCalls + 1,
                           phase |-> IF modelsLoaded THEN "camera" ELSE "models",
                           state |-> currentState,
                           session_id |-> session.session_id,
                           token |-> token])
    /\ UNCHANGED << isActive, currentState, modelsLoaded, intervals, intervalIdRef,
                    streams, streamRef, posted >>
    /\ UNCHANGED << pageVars, audioVars, netVars, histVars, attVars >>

\* loadModels resumes with both models: startDetection goes on to ask for
\* the camera
ModelsLoaded(i) ==
    /\ i \in 1..Len(starting)
    /\ starting[i].phase = "models"
    /\ modelsLoaded' = TRUE
    /\ modelLoading' = FALSE
    /\ starting' = [starting EXCEPT ![i].phase = "camera"]
    /\ UNCHANGED << isActive, currentState, detError, intervals, intervalIdRef,
                    streams, streamRef, detCalls, posted >>
    /\ UNCHANGED << pageVars, audioVars, netVars, histVars, attVars >>

\* loadModels catches the failure of a load; startDetection goes on all the
\* same
ModelsFailed(i) ==
    /\ i \in 1..Len(starting)
    /\ starting[i].phase = "models"
    /\ detError' = TRUE
    /\ modelLoading' = FALSE
    /\ starting' = [starting EXCEPT ![i].phase = "camera"]
    /\ UNCHANGED << isActive, currentState, modelsLoaded, intervals, intervalIdRef,
                    streams, streamRef, detCalls, posted >>
    /\ UNCHANGED << pageVars, audioVars, netVars, histVars, attVars >>

\* getUserMedia resumes with a stream: the rest of startDetection
CameraGranted(i) ==
    /\ i \in 1..Len(starting)
    /\ starting[i].phase = "camera"
    /\ streams' = streams \cup { starting[i].id }
    /\ streamRef' = starting[i].id
    /\ intervals' = intervals \cup { [id |-> starting[i].id,
                                       state |-> starting[i].state,
                                       session_id |-> starting[i].session_id,
                                       token |-> starting[i].token] }
    /\ intervalIdRef' = starting[i].id
    /\ isActive' = TRUE
    /\ starting' = RemoveAt(starting, i)
    /\ UNCHANGED << currentState, detError, modelLoading, modelsLoaded, detCalls,
                    posted >>
    /\ UNCHANGED << pageVars, audioVars, netVars, histVars, attVars >>

\* getUserMedia rejects: the catch branch of startDetection
CameraDenied(i) ==
    /\ i \in 1..Len(starting)
    /\ starting[i].phase = "camera"
    /\ detError' = TRUE
    /\ starting' = RemoveAt(starting, i)
    /\ UNCHANGED << isActive, currentState, modelLoading, modelsLoaded, intervals,
                    intervalIdRef, streams, streamRef, detCalls, posted >>
    /\ UNCHANGED << pageVars, audioVars, netVars, histVars, attVars >>

\* a tick of a scheduled interval: its analyzeFrame classifies the frame as
\* c at time ts, compares with the currentState it closes over, and posts
\* with the sessionId and authToken it closes over
analyzeFrame(iv, c, ts) ==
    /\ iv \in intervals
    /\ modelsLoaded
    /\ Len(posted) < MaxEvents
    /\ IF posted = << >> THEN TRUE ELSE ts >= posted[Len(posted)].event.timestamp
    /\ IF c.state # iv.state
       THEN /\ currentState' = c.state
            /\ posted' = IF iv.session_id # 0 /\ iv.token # NoToken
                         THEN Append(posted,
                                     [session_id |-> iv.session_id,
                                      token |-> iv.token,
                                      event |-> [state |-> c.state,
                                                 event |-> c.event,
                                                 confidence |-> c.confidence,
                                                 timestamp |-> ts]])
                         ELSE posted
       ELSE UNCHANGED << currentState, posted >>
    /\ UNCHANGED << isActive, detError, modelLoading, modelsLoaded, starting,
                    intervals, intervalIdRef, streams, streamRef, detCalls >>
    /\ UNCHANGED << pageVars, audioVars, netVars, histVars, attVars >>

\* a click on Stop Monitoring
stopDetection ==
    /\ isActive
    /\ intervals' = { iv \in intervals : iv.id # intervalIdRef }
    /\ intervalIdRef' = 0
    /\ streams' = streams \ { streamRef }
    /\ streamRef' = 0
    /\ isActive' = FALSE
    /\ currentState' = "unknown"
    /\ UNCHANGED << detError, modelLoading, modelsLoaded, starting, detCalls,
                    posted >>
    /\ UNCHANGED << pageVars, audioVars, netVars, histVars, attVars >>

\* ------------------------------------------------------------ specification
\* the cap of the model on a step: the transcript it leaves has at most
\* maxWords words
Fits(maxWords) == Len(Split(transcript')) <= maxWords

Next ==
    \/ Start
    \/ \E n \in QuestionCounts : StartOk(n)
    \/ StartNotOk
    \/ StartRejected
    \/ nextQ
    \/ \E i \in 1..MaxFinalize, v \in Variants : FinalizeOk(i, v)
    \/ \E i \in 1..MaxFinalize : FinalizeNotOk(i)
    \/ \E i \in 1..MaxFinalize : FinalizeRejected(i)
    \/ \E i \in 1..MaxFinalize : FinalizeHang(i)
    \/ \E ev \in PageEvents : HandleResult(ev) /\ Fits(MaxPageWords)
    \/ startRecognition
    \/ stopRecognition

Spec == Init /\ [][Next]_vars

\* the page right after a session of n questions has started (Start, then
\* StartOk(n))
PageStartedWith(n) ==
    /\ LET data == StartResponse(1, n)
       IN  /\ session = [session_id |-> data.session_id, questions |-> data.questions]
           /\ token = data.token
           /\ avatarText = Avatar("question", QuestionAt(data.questions, 0))
           /\ answers = ArraySet(ArrayFill(n, << >>), 0, << >>, Undefined)
    /\ qIndex = 0
    /\ transcript = << >>
    /\ scores = << >>
    /\ countdown = QUESTION_TIME_SECONDS
    /\ report = NoReport
    /\ loadingReport = FALSE
    /\ finalTranscriptRef = << >>
    /\ listening = FALSE
    /\ handler = [session_id |-> 0, token |-> NoToken, question_index |-> 0]
    /\ startReqs = 0
    /\ startCalls = 1
    /\ issued = 1
    /\ finalizeReqs = << >>
    /\ finalizeCalls = 0
    /\ accepted = << >>
    /\ lastSeq = -1
    /\ finals = {}

\* a session of one question
PageStarted == PageStartedWith(1)

\* The transcript accumulator on its own: a session has started and only
\* AudioCapture acts, on every event of Events.
AccInit == PageStarted /\ AttIdle /\ DetIdle

AccNext ==
    \/ \E ev \in Events : HandleResult(ev) /\ Fits(MaxWords)
    \/ startRecognition
    \/ stopRecognition

AccSpec == AccInit /\ [][AccNext]_vars

\* Spec with the most the network can promise: every finalize request that the
\* server has not abandoned is eventually settled, and its continuation runs.
FinalizeSettles ==
    \E i \in 1..MaxFinalize :
        \/ \E v \in Variants : FinalizeOk(i, v)
        \/ FinalizeNotOk(i)
        \/ FinalizeRejected(i)

LiveSpec == Spec /\ WF_vars(FinalizeSettles)

\* Attention on its own: a session has started and its AttentionMonitor has
\* mounted, which starts the polling effect (active = true, the first
\* fetchSnapshot sent, the interval set); events are recorded for the session
\* and the monitor polls.  The monitor's state does not feed back into the
\* page.
AttInit ==
    /\ PageStarted
    /\ attLast = NoEvent
    /\ attCounts = [focused |-> 0, distracted |-> 0, unknown |-> 0]
    /\ attLog = << >>
    /\ snapshot = InitialSnapshot
    /\ error = FALSE
    /\ monitorActive = TRUE
    /\ polls = << NewPoll(session.session_id) >>
    /\ pollCalls = 0
    /\ shownAt = -1
    /\ DetIdle

AttNext ==
    \/ \E e \in AttentionEvents : Record(e)
    \/ FetchSnapshot
    \/ \E i \in 1..(MaxPolls + 1) : ServeSnapshot(i)
    \/ \E i \in 1..(MaxPolls + 1) : FetchOk(i)
    \/ \E i \in 1..(MaxPolls + 1) : FetchFailed(i)
    \/ MonitorCleanup

AttSpec == AttInit /\ [][AttNext]_vars

\* The two ingest streams of one session together: a session of two questions
\* has started; speech results arrive, attention events are recorded for the
\* session, and the candidate advances and finishes.
IngestInit == PageStartedWith(2) /\ AttIdle /\ DetIdle

\* the attention events of this specification
IngestEvents ==
    { e \in AttentionEvents :
         e.timestamp = 1 /\ e.event \in { "looking_forward", "looking_away" } }

\* the attention monitor across a change of session: two start requests in
\* flight, the first response mounts the monitor, the second changes its
\* sessionId
MonInit == Clicked(2)

MonNext ==
    \/ StartOkMonitored(1)
    \/ \E e \in IngestEvents : Record(e)
    \/ FetchSnapshot
    \/ \E i \in 1..(MaxPolls + 2) : ServeSnapshot(i)
    \/ \E i \in 1..(MaxPolls + 2) : FetchOk(i)
    \/ \E i \in 1..(MaxPolls + 2) : FetchFailed(i)
    \/ MonitorCleanup

MonSpec == MonInit /\ [][MonNext]_vars

\* the results of the transcript stream: one result, final or interim, of
\* one of two texts
IngestResults == EventsOf({ << "a" >>, << "b" >> }, 1, 0)

IngestNext ==
    \/ \E ev \in IngestResults : HandleResult(ev) /\ Fits(MaxWords)
    \/ startRecognition
    \/ stopRecognition
    \/ \E e \in IngestEvents : Record(e)
    \/ nextQ
    \/ \E i \in 1..MaxFinalize, v \in Variants : FinalizeOk(i, v)

IngestSpec == IngestInit /\ [][IngestNext]_vars

\* a transcript of n one-letter words
Words(n) == [i \in 1..(2 * n - 1) |-> IF i % 2 = 1 THEN "a" ELSE SP]

\* "I have five years of experience in backend systems"
Sentence ==
    << "I", SP, "h", "a", "v", "e", SP, "f", "i", "v", "e", SP,
       "y", "e", "a", "r", "s", SP, "o", "f", SP,
       "e", "x", "p", "e", "r", "i", "e", "n", "c", "e", SP, "i", "n", SP,
       "b", "a", "c", "k", "e", "n", "d", SP,
       "s", "y", "s", "t", "e", "m", "s" >>

\* the transcripts AudioCapture hands to the page: the empty one, the
\* sentence, and one for each length around which the formula changes
ScoreTranscripts ==
    { << >>, Sentence } \cup { Words(n) : n \in { 30, 200 } }

\* the page scoring the transcripts of a session of two questions while
\* attention events are recorded for it
ScoreInit == PageStartedWith(2) /\ AttIdle /\ DetIdle

ScoreNext ==
    \/ \E t \in ScoreTranscripts : OnTranscript(t)
    \/ \E e \in IngestEvents : Record(e)
    \/ nextQ
    \/ \E i \in 1..MaxFinalize, v \in Variants : FinalizeOk(i, v)
    \/ \E i \in 1..MaxFinalize : FinalizeNotOk(i)

ScoreSpec == ScoreInit /\ [][ScoreNext]_vars

\* Start clicked twice in rapid succession: two requests to /interview/start
\* are in flight, and the page goes on while their answers arrive.
RapidInit == Clicked(2)

RapidNext ==
    \/ \E n \in QuestionCounts : StartOk(n)
    \/ StartNotOk
    \/ StartRejected
    \/ nextQ
    \/ \E i \in 1..MaxFinalize, v \in Variants : FinalizeOk(i, v)
    \/ \E i \in 1..MaxFinalize : FinalizeNotOk(i)
    \/ \E ev \in PageEvents : HandleResult(ev) /\ Fits(MaxPageWords)
    \/ startRecognition
    \/ stopRecognition

RapidSpec == RapidInit /\ [][RapidNext]_vars

\* The countdown: Start was clicked, its answer sets a session, the timer
\* ticks and the candidate advances and finishes.
TimerInit == Clicked(1)

TimerNext ==
    \/ \E n \in QuestionCounts : StartOk(n)
    \/ Tick
    \/ nextQ
    \/ \E i \in 1..MaxFinalize, v \in Variants : FinalizeOk(i, v)
    \/ \E i \in 1..MaxFinalize : FinalizeNotOk(i)

TimerSpec == TimerInit /\ [][TimerNext]_vars

\* The attention detector on its own, mounted for a started session.
DetInit == PageStarted /\ AttIdle /\ DetIdle

DetNext ==
    \/ startDetection
    \/ \E i \in 1..MaxDetStarts : ModelsLoaded(i)
    \/ \E i \in 1..MaxDetStarts : ModelsFailed(i)
    \/ \E i \in 1..MaxDetStarts : CameraGranted(i)
    \/ \E i \in 1..MaxDetStarts : CameraDenied(i)
    \/ \E iv \in intervals, c \in Frames, ts \in Timestamps : analyzeFrame(iv, c, ts)
    \/ stopDetection

DetSpec == DetInit /\ [][DetNext]_vars

\* The requests that carry a credential: Start was clicked twice, each answer
\* sets a session of one question; the candidate records, monitors and
\* finishes.
CredInit == Clicked(2)

\* the frames analysed here: the candidate looking forward
CredFrames == { c \in Frames : c.event = "looking_forward" }

CredNext ==
    \/ StartOk(1)
    \/ nextQ
    \/ startRecognition
    \/ \E ev \in PageEvents : HandleResult(ev) /\ Fits(MaxPageWords)
    \/ startDetection
    \/ \E i \in 1..MaxDetStarts : ModelsLoaded(i)
    \/ \E i \in 1..MaxDetStarts : CameraGranted(i)
    \/ \E iv \in intervals, c \in CredFrames : analyzeFrame(iv, c, 1)

CredSpec == CredInit /\ [][CredNext]_vars

\* ------------------------------------------------------------ lifecycle
\* the report held is the current session's
HasReport == report # NoReport /\ report.session_id = session.session_id

\* the lifecycle status of the current session, read off the page state
status ==
    IF session = NoSession THEN "None"
    ELSE IF loadingReport THEN "Finalizing"
    ELSE IF HasReport THEN "Finalized"
    ELSE "Active"

\* the finalize requests of session sid that are in progress
InProgress(sid) ==
    { i \in 1..Len(finalizeReqs) : finalizeReqs[i].session_id = sid }

\* the position label under the heading: "Question n of N", or "Preparing
\* questions..." for an empty list
PositionLabel ==
    IF Len(session.questions) > 0
    THEN [kind |-> "question_of", n |-> qIndex + 1, of |-> Len(session.questions)]
    ELSE [kind |-> "preparing", n |-> 0, of |-> 0]

\* ------------------------------------------------------------ claims
\* C1: once the session is Finalized, a further finalize returns the stored
\* report and recomputes nothing: no step of a Finalized session issues a
\* finalize request or changes the report.
C1_FinalizeExactlyOnce ==
    [][(status = "Finalized" /\ session' = session)
          => (report' = report /\ finalizeCalls' = finalizeCalls)]_vars

\* C2: in every reachable state at most one finalize request of a session is
\* in progress.
C2_SingleFlight ==
    \A sid \in 1..MaxStarts : Cardinality(InProgress(sid)) <= 1

\* a second finalize of the run is in progress, after the first one ended
C2_Witness ==
    /\ finalizeCalls >= 2
    /\ loadingReport
    /\ Cardinality(InProgress(session.session_id)) = 1

\* C3: the status of a session changes only along Active -> Finalizing,
\* Finalizing -> Finalized and Finalizing -> Active; Finalized is terminal.
C3_StatusTransitions ==
    [][session' = session
          => \/ status' = status
             \/ << status, status' >> \in { << "Active", "Finalizing" >>,
                                            << "Finalizing", "Finalized" >>,
                                            << "Finalizing", "Active" >> }]_vars

\* C4: a finalize that fails, by an error response or by a failed request,
\* leaves the session not Finalizing, with cursor, transcripts and report
\* unchanged, and finalize can be issued again.
C4_FailedFinalizeReverts ==
    [][\A i \in 1..MaxFinalize :
          (FinalizeNotOk(i) \/ FinalizeRejected(i))
             => /\ ~loadingReport'
                /\ NextEnabled'
                /\ qIndex' = qIndex
                /\ answers' = answers
                /\ report' = report]_vars

\* C5: every finalize that enters Finalizing eventually leaves it, also when
\* the finalize request is never answered.
C5_FinalizingEnds == (status = "Finalizing") ~> (status # "Finalizing")

\* C6: a transcript segment arriving while the session is Finalizing or
\* Finalized changes neither transcripts nor scores nor the report.
C6_IngestRejectedWhenClosed ==
    [][\A ev \in PageEvents :
          (HandleResult(ev) /\ status \in { "Finalizing", "Finalized" })
             => UNCHANGED << transcript, answers, scores, report,
                             finalTranscriptRef >>]_vars

\* C7: once a report is held for the session, the report and the scorecards
\* shown stay the ones produced at finalize time.
C7_ReportImmutable ==
    [][(HasReport /\ session' = session)
          => (report' = report /\ scores' = scores)]_vars

\* the words of a stored transcript (none for a hole or the empty string)
WordsOf(t) ==
    IF t = Undefined \/ t = << >> THEN {}
    ELSE { Split(t)[k] : k \in 1..Len(Split(t)) }

\* C8: the transcript stored for a question the cursor has left, and every
\* transcript of a finalize payload of the session, holds only words of
\* final segments.
C8_InterimNeverPersisted ==
    /\ \A k \in 1..Len(answers) :
          k - 1 < qIndex => WordsOf(answers[k]) \subseteq finals
    /\ \A i \in InProgress(session.session_id) :
          \A k \in 1..Len(finalizeReqs[i].transcripts) :
             WordsOf(finalizeReqs[i].transcripts[k].transcript) \subseteq finals

\* texts joined with exactly one separating space
RECURSIVE JoinSp(_)
JoinSp(texts) ==
    IF texts = << >> THEN << >>
    ELSE IF Len(texts) = 1 THEN texts[1]
    ELSE texts[1] \o << SP >> \o JoinSp(Tail(texts))

IsDuplicate(ev) ==
    /\ accepted # << >>
    /\ Len(ev.results) = 1
    /\ ev.results[1].isFinal
    /\ ev.resultIndex = lastSeq
    /\ Trim(ev.results[1].transcript) = accepted[Len(accepted)]

\* C10: a final segment identical to the most recently accepted one leaves
\* the stored transcript as it was.
C10_DuplicateNoOp ==
    [][\A ev \in Events :
          (HandleResult(ev) /\ IsDuplicate(ev))
             => finalTranscriptRef' = finalTranscriptRef]_vars

\* s is a prefix of t
IsPrefix(s, t) == Len(s) <= Len(t) /\ SubSeq(t, 1, Len(s)) = s

\* C11: while the session and the question stay the same, every step leaves
\* the previously accumulated final transcript as a prefix of the new one,
\* stopping and restarting the recording included.
C11_AppendOnly ==
    [][(session' = session /\ qIndex' = qIndex)
          => IsPrefix(finalTranscriptRef, finalTranscriptRef')]_vars

\* s ends with t
IsSuffix(t, s) == Len(t) <= Len(s) /\ SubSeq(s, Len(s) - Len(t) + 1, Len(s)) = t

\* a final segment delivered after the cursor has advanced past the question
\* index it carries (the question_index of its /stt/append request)
IsLate(ev) ==
    /\ ev.results[1].isFinal
    /\ Trim(ev.results[1].transcript) # << >>
    /\ PostsAppend
    /\ handler.session_id = session.session_id
    /\ handler.question_index < qIndex

\* C12: a final segment arriving after the cursor has advanced past its
\* question is appended to the transcript of the question index it carries and
\* to no other question's transcript.
C12_LateSegment ==
    [][\A ev \in PageEvents :
          (HandleResult(ev) /\ IsLate(ev))
             => /\ Len(answers') = Len(answers)
                /\ IsSuffix(Trim(ev.results[1].transcript),
                            answers'[handler.question_index + 1])
                /\ \A k \in 1..Len(answers) :
                      k - 1 # handler.question_index => answers'[k] = answers[k]]_vars

\* C13: a successful start leaves the session Active with cursor 0, the first
\* prompt of its question list displayed, empty transcript and scores, and no
\* report.
C13_StartCreates ==
    [][\A n \in QuestionCounts :
          StartOk(n)
             => /\ status' = "Active"
                /\ qIndex' = 0
                /\ Len(session'.questions) > 0
                /\ avatarText' = Avatar("question", session'.questions[1])
                /\ transcript' = << >>
                /\ scores' = << >>
                /\ report' = NoReport]_vars

\* C14: no session exists, in any status, with an empty question list.
C14_NoEmptySession ==
    session # NoSession => Len(session.questions) > 0

\* C15: a start whose request fails, by an error response or by a failed
\* request, leaves session, token, cursor, transcript, answers, scores, report
\* and countdown exactly as they were.
C15_FailedStartNoState ==
    [][(StartNotOk \/ StartRejected)
          => UNCHANGED << session, token, qIndex, transcript, answers, scores,
                          report, countdown >>]_vars

\* a start has failed with an error response, with no session and a
\* transcript and live score on the page
C15_Witness ==
    /\ avatarText.kind = "unable_to_start"
    /\ session = NoSession
    /\ startReqs = 0
    /\ transcript # << >>
    /\ scores # << >>

\* the cursor is at the last question index (or the list is empty)
AtLast == qIndex + 1 >= Len(session.questions)

C17_CursorInRange ==
    [][/\ session' # NoSession => (0 <= qIndex' /\ qIndex' < Len(session'.questions))
       /\ (session # NoSession /\ session' = session)
             => \/ qIndex' = qIndex
                \/ (qIndex' = qIndex + 1 /\ nextQ)]_vars

\* a final segment whose /stt/append request carries a question index beyond
\* the last question of the session it names
IsBeyondLast(ev) ==
    /\ ev.results[1].isFinal
    /\ Trim(ev.results[1].transcript) # << >>
    /\ PostsAppend
    /\ handler.session_id = session.session_id
    /\ handler.question_index >= Len(session.questions)

\* C18: a segment whose question index is beyond the last question is
\* rejected before mutation: no transcript and no score of the session
\* changes.
C18_InvalidQuestionRejected ==
    [][\A ev \in PageEvents :
          (HandleResult(ev) /\ IsBeyondLast(ev))
             => UNCHANGED << transcript, answers, scores, finalTranscriptRef >>]_vars

\* the events of a log classified st
CountOf(log, st) == Cardinality({ k \in 1..Len(log) : log[k].state = st })

\* focused / (focused + distracted) over a log, 0 when nothing is classified
RatioOfLog(log) ==
    LET f == CountOf(log, "focused")
        d == CountOf(log, "distracted")
    IN  IF f + d = 0 THEN << 0, 1 >> ELSE << f, f + d >>

\* C19: after any sequence of recorded events focusedRatio is the number of
\* focused events over the number of focused and distracted events, 0 when
\* there are none; recording an unknown event leaves the denominator as it is.
C19_FocusedRatio ==
    [][/\ FocusedRatio(attCounts') = RatioOfLog(attLog')
       /\ \A e \in AttentionEvents :
             (Record(e) /\ e.state = "unknown")
                => ClassifiedTotal(attCounts') = ClassifiedTotal(attCounts)]_vars

\* an unknown event was recorded last, after a distracted one
C19_Witness ==
    /\ Len(attLog) = 2
    /\ attLog[1].state = "distracted"
    /\ attLog[2].state = "unknown"
    /\ FocusedRatio(attCounts) = << 0, 1 >>

\* the snapshot of the k-th event of a log, by arrival
SnapshotOfLog(log, k) ==
    IF k = 0
    THEN [state |-> Missing, score |-> NoScore, last_event |-> NoLabel]
    ELSE [state |-> log[k].state, score |-> log[k].confidence,
          last_event |-> log[k].event]

\* C20: the snapshot is that of the event that arrived last, whatever the
\* timestamps: the aggregator's snapshot at any moment, the body of every
\* served poll for the moment it was served, and the snapshot the monitor
\* displays for the response it came from.
C20_LastWriteWins ==
    /\ ServerSnapshot = SnapshotOfLog(attLog, Len(attLog))
    /\ \A i \in 1..Len(polls) :
          polls[i].served => polls[i].body = SnapshotOfLog(attLog, polls[i].at)
    /\ shownAt # -1 => snapshot = Displayed(SnapshotOfLog(attLog, shownAt))

\* the monitor displays an event that arrived last with an earlier timestamp
\* than the event before it
C20_Witness ==
    /\ Len(attLog) >= 2
    /\ shownAt = Len(attLog)
    /\ attLog[shownAt].timestamp < attLog[shownAt - 1].timestamp
    /\ attLog[shownAt].state # attLog[shownAt - 1].state
    /\ snapshot.state = attLog[shownAt].state

\* a / b and c / d differ by at most 1 / 100
About(a, b, c, d) ==
    LET diff == a * d - c * b
    IN  100 * diff <= b * d /\ -100 * diff <= b * d

\* C21: when events classified focused or distracted were recorded for the
\* session, the attention summary a finalize request carries is the one
\* derived from them at the time finalize is called (events focused,
\* distracted: both ratios 0.5).
C21_SummaryFromEvents ==
    [][(finalizeCalls' = finalizeCalls + 1 /\ ClassifiedTotal(attCounts) > 0)
          => LET sent == finalizeReqs'[Len(finalizeReqs')].attention_summary
                 ratio == FocusedRatio(attCounts)
             IN  /\ About(sent.focused_ratio, 100, ratio[1], ratio[2])
                 /\ About(sent.distracted_ratio, 100,
                          ratio[2] - ratio[1], ratio[2])]_vars

\* the five sub-scores of a scorecard
SubScores == { "clarity", "relevance", "structure", "conciseness", "confidence" }

\* C22: every scorecard of the score list has five integer sub-scores in
\* 1..5 and a total that is their sum, hence in 5..25.
C22_ScorecardRanges ==
    \A k \in 1..Len(scores) :
       scores[k] # NoCard
          => /\ \A f \in SubScores : scores[k][f] \in 1..5
             /\ scores[k].total = scores[k].clarity + scores[k].relevance
                                   + scores[k].structure + scores[k].conciseness
                                   + scores[k].confidence
             /\ scores[k].total \in 5..25

\* a transcript of 200 words was scored live: its clarity is the cap, 5, and
\* its conciseness the lower one, 3
C22_Witness ==
    /\ report = NoReport
    /\ transcript = Words(200)
    /\ qIndex < Len(scores)
    /\ scores[qIndex + 1].clarity = 5
    /\ scores[qIndex + 1].conciseness = 3
    /\ scores[qIndex + 1].total = 17

\* C23: once the transcript becomes the nine-word sentence the scorecard of
\* the question has a total between 18 and 23, and once it becomes empty the
\* question has a scorecard whose conciseness is the highest the formula gives.
C23_ScenarioScores ==
    [][/\ (transcript' # transcript /\ transcript' = Sentence)
             => /\ qIndex' < Len(scores')
                /\ scores'[qIndex' + 1] # NoCard
                /\ scores'[qIndex' + 1].total \in 18..23
       /\ (transcript' # transcript /\ transcript' = << >>)
             => /\ qIndex' < Len(scores')
                /\ scores'[qIndex' + 1] # NoCard
                /\ scores'[qIndex' + 1].conciseness >= 4]_vars

\* C24: before the report, two questions answered with the same non-empty
\* transcript have the same live scorecard, whatever attention events were
\* recorded before, between or after the two scorings.
C24_ScoreIgnoresAttention ==
    report = NoReport
       => \A i, j \in 1..Len(answers) :
             (answers[i] = answers[j] /\ answers[i] # Undefined /\ answers[i] # << >>)
                => /\ i <= Len(scores)
                   /\ j <= Len(scores)
                   /\ scores[i] # NoCard
                   /\ scores[i] = scores[j]

\* both questions were answered with the same 30 words and a distracted
\* event was recorded for the session
C24_Witness ==
    /\ report = NoReport
    /\ Len(answers) = 2
    /\ answers[1] = Words(30)
    /\ answers[2] = Words(30)
    /\ Len(scores) = 2
    /\ scores[1] = scores[2]
    /\ attCounts.distracted > 0

\* C26: whatever the interleaving of final segments, attention events and
\* advances, every word of a final segment delivered for the session is in
\* the transcript stored for one of its questions, and the attention counters
\* sum to the number of events recorded.
C26_NoLostUpdate ==
    /\ \A w \in finals : \E k \in 1..Len(answers) : w \in WordsOf(answers[k])
    /\ attCounts.focused + attCounts.distracted + attCounts.unknown = Len(attLog)

C28_RapidStarts ==
    [][/\ token' = session'.session_id
       /\ \A k \in 1..Len(session'.questions) :
             session'.questions[k] = << session'.session_id, k - 1 >>
       /\ session' # session
             => /\ qIndex' = 0
                /\ avatarText' = Avatar("question", QuestionAt(session'.questions, 0))]_vars

\* both requests were answered with a session: the second session is held,
\* with its token, its first question displayed and the cursor at 0
C28_Witness ==
    /\ issued = 2
    /\ startReqs = 0
    /\ session.session_id = 2
    /\ token = 2
    /\ qIndex = 0
    /\ Len(session.questions) > 0
    /\ avatarText = Avatar("question", << 2, 0 >>)

\* C29: the countdown of a session is within 0..120; a step that sets a
\* session or changes the cursor leaves it at 120; any other step leaves it
\* as it was or, while it is above 0, one lower, so that at 0 it stays 0.
C29_Countdown ==
    [][/\ session' # NoSession => countdown' \in 0..QUESTION_TIME_SECONDS
       /\ (session' # session \/ qIndex' # qIndex)
             => countdown' = QUESTION_TIME_SECONDS
       /\ (session' = session /\ qIndex' = qIndex)
             => \/ countdown' = countdown
                \/ countdown > 0 /\ countdown' = countdown - 1]_vars

\* after the cursor moved to the second question the countdown ran down to 0
C29_Witness ==
    /\ session # NoSession
    /\ qIndex = 1
    /\ countdown = 0

\* C30: two consecutive events posted by the detector never carry the same
\* state.
C30_PostsOnlyChanges ==
    \A k \in 1..(Len(posted) - 1) :
       posted[k].event.state # posted[k + 1].event.state

\* C25: the token held is the one issued with the session held (none while
\* there is no session); every finalize request in flight and every attention
\* event posted names a session and carries the token issued for it; and the
\* handler of AudioCapture posts appends only with a session id and the token
\* issued for it.
C25_CredentialBound ==
    /\ token = session.session_id
    /\ \A i \in 1..Len(finalizeReqs) :
          /\ finalizeReqs[i].session_id # 0
          /\ finalizeReqs[i].token = finalizeReqs[i].session_id
    /\ \A k \in 1..Len(posted) :
          /\ posted[k].session_id # 0
          /\ posted[k].token = posted[k].session_id
    /\ PostsAppend => handler.token = handler.session_id

\* the second session is held; a finalize request is in flight, the detector
\* started in the first session has posted an event, and the handler of
\* AudioCapture, installed in the first session, has posted a final segment
C25_Witness ==
    /\ session.session_id = 2
    /\ finalizeReqs # << >>
    /\ posted # << >>
    /\ posted[1].session_id = 1
    /\ PostsAppend
    /\ handler.session_id = 1
    /\ finalTranscriptRef # << >>

\* C31: while a session with questions is Active, the prompt shown is
\* questions[cursor] and the position label is cursor + 1 of the number of
\* questions.
C31_PromptAtCursor ==
    (status = "Active" /\ Len(session.questions) > 0)
       => /\ avatarText = Avatar("question", QuestionAt(session.questions, qIndex))
          /\ PositionLabel = [kind |-> "question_of", n |-> qIndex + 1,
                              of |-> Len(session.questions)]

\* C32: every final segment posted to /stt/append for the current session
\* carries the question index that is the cursor at the moment the segment is
\* recognised.
C32_AppendAtCursor ==
    [][\A ev \in PageEvents :
          (/\ HandleResult(ev)
           /\ ev.results[1].isFinal
           /\ Trim(ev.results[1].transcript) # << >>
           /\ PostsAppend
           /\ handler.session_id = session.session_id)
             => PostBody(Trim(ev.results[1].transcript)).question_index = qIndex]_vars

\* C33: at most one analysis interval is scheduled at any time, and a
\* stopDetection leaves no interval scheduled and no camera stream open.
C33_StopLeavesNothing ==
    [][/\ Cardinality(intervals') <= 1
       /\ stopDetection => (intervals' = {} /\ streams' = {})]_vars

\* C34: a poll response or failure that arrives after the cleanup of the
\* polling effect that sent it (unmount or change of session id) changes
\* neither the displayed snapshot nor the error, and a failed poll leaves the
\* displayed snapshot as it was, changing at most the error
C34_LateResponseIgnored ==
    [][\A i \in 1..Len(polls) :
          /\ ((FetchOk(i) \/ FetchFailed(i)) /\ polls[i].stale)
                => (snapshot' = snapshot /\ error' = error)
          /\ FetchFailed(i)
                => (snapshot' = snapshot /\ error' = (error \/ ~polls[i].stale))]_vars

\* the monitor shows the second session's snapshot without error while an
\* answered poll of the first session's effect, carrying another snapshot, is
\* still to arrive
C34_Witness ==
    /\ session.session_id = 2
    /\ monitorActive
    /\ ~error
    /\ snapshot.state = "distracted"
    /\ \E i \in 1..Len(polls) :
          /\ polls[i].stale
          /\ polls[i].served
          /\ polls[i].session_id = 1
          /\ Displayed(polls[i].body).state = "focused"

\* C35: every entry of the live score list handed to the score panel is a
\* scorecard: no index below the length of the list is without one
C35_ScoresAreCards ==
    \A k \in 1..Len(scores) : scores[k] # NoCard

\* C36: within a session, no step changes the answer recorded for a question
\* below the cursor, and every finalize request sent holds one entry per
\* question, in question order, whose transcript is the answer recorded for
\* that question (the empty string when there is none)
C36_RecordedAnswersKept ==
    [][/\ (session # NoSession /\ session' = session)
            => \A i \in 0..(qIndex - 1) :
                  /\ i < qIndex'
                  /\ ArrayGetOr(answers', i, Undefined) = ArrayGetOr(answers, i, Undefined)
       /\ Len(finalizeReqs') > Len(finalizeReqs)
            => LET sent == finalizeReqs'[Len(finalizeReqs')].transcripts
               IN  /\ Len(sent) = Len(session.questions)
                   /\ \A k \in 1..Len(sent) :
                         /\ sent[k].question = session.questions[k]
                         /\ sent[k].transcript = ArrayGetOr(answers', k - 1, << >>)
                         /\ k - 1 < qIndex
                               => sent[k].transcript = ArrayGetOr(answers, k - 1, << >>)]_vars

\* a finalize request in flight for a session of two questions whose first
\* answer was recorded non-empty before the cursor advanced and whose second
\* is empty
C36_Witness ==
    /\ session # NoSession
    /\ Len(session.questions) = 2
    /\ qIndex = 1
    /\ \E r \in 1..Len(finalizeReqs) :
          /\ finalizeReqs[r].session_id = session.session_id
          /\ Len(finalizeReqs[r].transcripts) = 2
          /\ finalizeReqs[r].transcripts[1].transcript # << >>
          /\ finalizeReqs[r].transcripts[1].transcript = answers[1]
          /\ finalizeReqs[r].transcripts[2].transcript = << >>

====
